---- MODULE Spec2Model ----
(***************************************************************************)
(* Model of simple-proxy: the domain registry (internal/database/db.go),   *)
(* the management API (internal/api/handlers.go, cmd/proxy/main.go) and    *)
(* the Host-header reverse proxy (internal/proxy).                         *)
(*                                                                         *)
(* Strings the code takes apart character by character (request hosts,     *)
(* domain names) are sequences of one-character strings; strings the code  *)
(* only stores and compares (ip, protocol, paths) are TLA+ strings.        *)
(***************************************************************************)
EXTENDS Integers, Sequences, FiniteSets, TLC

VARIABLES table, now, last, calls, start

vars == <<table, now, last, calls, start>>

(* ------------------------------ bounds -------------------------------- *)

\* CURRENT_TIMESTAMP takes the values 0..MaxClock.
MaxClock == 1
\* Longest batch handed to BulkCreateDomains.
MaxBatch == 2

(* ------------------------------ values -------------------------------- *)

\* Go's nil *models.Domain, and its nil error.
Nil == [nil |-> TRUE]
NoErr == "nil"

Domains == {<<"a">>, <<"b">>}

\* Return a value and an error, as the Go methods do.
Ret(t, v, e) == [table |-> t, val |-> v, err |-> e]

(* --------------------- SQL statements (db.go) -------------------------- *)

\* A row of CREATE TABLE domains.
Row(domain, ip, port, protocol, created, updated) ==
    [domain |-> domain, ip |-> ip, port |-> port, protocol |-> protocol,
     created_at |-> created, updated_at |-> updated]

\* A table whose domain column has no key constraint.
PrimaryKeyMutant(t, domain) == FALSE

\* domain TEXT PRIMARY KEY: the constraint an INSERT is checked against.
PrimaryKey(t, domain) == \E r \in t : r.domain = domain

\* INSERT INTO domains (domain, ip, port, protocol) VALUES (?, ?, ?, ?)
\* created_at and updated_at take their DEFAULT CURRENT_TIMESTAMP.
ExecInsert(t, domain, ip, port, protocol, ts) ==
    IF PrimaryKey(t, domain)
    THEN [table |-> t, err |-> "UNIQUE constraint failed: domains.domain"]
    ELSE [table |-> t \cup {Row(domain, ip, port, protocol, ts, ts)}, err |-> NoErr]

\* An UPDATE that inserts the row when no row matches.
ExecUpdateUpsert(t, domain, ip, port, protocol, ts) ==
    LET hit == {r \in t : r.domain = domain}
    IN  IF hit = {}
        THEN [table |-> t \cup {Row(domain, ip, port, protocol, ts, ts)},
              rowsAffected |-> 1]
        ELSE [table |-> (t \ hit) \cup
                   {Row(r.domain, ip, port, protocol, r.created_at, ts) : r \in hit},
              rowsAffected |-> Cardinality(hit)]

\* An UPDATE without its WHERE clause.
ExecUpdateNoWhere(t, domain, ip, port, protocol, ts) ==
    [table |-> {Row(r.domain, ip, port, protocol, r.created_at, ts) : r \in t},
     rowsAffected |-> Cardinality(t)]

\* An UPDATE that also sets created_at = CURRENT_TIMESTAMP.
ExecUpdateResetsCreated(t, domain, ip, port, protocol, ts) ==
    LET hit == {r \in t : r.domain = domain}
    IN  [table |-> (t \ hit) \cup
                   {Row(r.domain, ip, port, protocol, ts, ts) : r \in hit},
         rowsAffected |-> Cardinality(hit)]

\* UPDATE domains SET ip = ?, port = ?, protocol = ?,
\*   updated_at = CURRENT_TIMESTAMP WHERE domain = ?
ExecUpdate(t, domain, ip, port, protocol, ts) ==
    LET hit == {r \in t : r.domain = domain}
    IN  [table |-> (t \ hit) \cup
                   {Row(r.domain, ip, port, protocol, r.created_at, ts) : r \in hit},
         rowsAffected |-> Cardinality(hit)]

\* A DELETE without its WHERE clause.
ExecDeleteNoWhere(t, domain) == [table |-> {}, rowsAffected |-> Cardinality(t)]

\* DELETE FROM domains WHERE domain = ?
ExecDelete(t, domain) ==
    LET hit == {r \in t : r.domain = domain}
    IN  [table |-> t \ hit, rowsAffected |-> Cardinality(hit)]

(* ------------------------- DB methods (db.go) -------------------------- *)

\* A GetDomain that reports every scan error as "no row".
GetDomainMutant(t, domain, ioerr) ==
    IF ioerr \/ ~(\E r \in t : r.domain = domain) THEN Ret(t, Nil, NoErr)
    ELSE Ret(t, CHOOSE r \in t : r.domain = domain, NoErr)

\* GetDomain: nil, nil when no row matches; an error when the scan fails for
\* another reason (ioerr: a storage failure).
GetDomain(t, domain, ioerr) ==
    IF ioerr THEN Ret(t, Nil, "failed to get domain")
    ELSE IF \E r \in t : r.domain = domain
         THEN Ret(t, CHOOSE r \in t : r.domain = domain, NoErr)
         ELSE Ret(t, Nil, NoErr)

\* A protocol stored as given, without the default.
DefaultProtocolAsGiven(protocol) == protocol

\* protocol := req.Protocol; if protocol == "" { protocol = "http" }
DefaultProtocol(protocol) == IF protocol = "" THEN "http" ELSE protocol

\* CreateDomain: insert, then fetch the created row.
CreateDomain(t, req, ts) ==
    LET ins == ExecInsert(t, req.domain, req.ip, req.port,
                          DefaultProtocol(req.protocol), ts)
    IN  IF ins.err # NoErr THEN Ret(t, Nil, "failed to create domain")
        ELSE Ret(ins.table, GetDomain(ins.table, req.domain, FALSE).val, NoErr)

\* An update that defaults an empty protocol as a creation does.
UpdateProtocolMutant(existing, protocol) == DefaultProtocol(protocol)

\* The protocol UpdateDomain writes: the request's, or the stored one when the
\* request's is empty.
UpdateProtocol(existing, protocol) ==
    IF protocol = "" THEN existing.protocol ELSE protocol

\* UpdateDomain: nil, nil when the domain is absent.
UpdateDomain(t, domain, req, ts) ==
    LET existing == GetDomain(t, domain, FALSE).val
    IN  IF req.protocol = "" /\ existing = Nil THEN Ret(t, Nil, NoErr)
        ELSE LET upd == ExecUpdate(t, domain, req.ip, req.port,
                                   UpdateProtocol(existing, req.protocol), ts)
             IN  IF upd.rowsAffected = 0 THEN Ret(upd.table, Nil, NoErr)
                 ELSE Ret(upd.table, GetDomain(upd.table, domain, FALSE).val, NoErr)

\* DeleteDomain: "domain not found" when no row was deleted.
DeleteDomain(t, domain) ==
    LET del == ExecDelete(t, domain)
    IN  IF del.rowsAffected = 0 THEN Ret(del.table, Nil, "domain not found")
        ELSE Ret(del.table, Nil, NoErr)

\* The loop of BulkCreateDomains inside the transaction: view is what the
\* transaction sees; the first failing insert ends the loop.
RECURSIVE TxInserts(_, _, _, _)
TxInserts(view, domains, i, ts) ==
    IF i > Len(domains) THEN [table |-> view, err |-> NoErr]
    ELSE LET req == domains[i]
             ins == ExecInsert(view, req.domain, req.ip, req.port,
                               DefaultProtocol(req.protocol), ts)
         IN  IF ins.err # NoErr THEN [table |-> view, err |-> "failed to create domain"]
             ELSE TxInserts(ins.table, domains, i + 1, ts)

\* Inserts made outside a transaction: those before the failure stay.
TxRollbackMutant(t, view) == view

\* defer tx.Rollback(): the table is what it was when the transaction began.
TxRollback(t, view) == t

\* tx.Commit(): the transaction's view becomes the table.
TxCommit(t, view) == view

\* The records fetched after the commit, in the order of domainNames.
RECURSIVE FetchCreated(_, _, _)
FetchCreated(t, domains, i) ==
    IF i > Len(domains) THEN <<>>
    ELSE LET d == GetDomain(t, domains[i].domain, FALSE).val
         IN  (IF d # Nil THEN <<d>> ELSE <<>>) \o FetchCreated(t, domains, i + 1)

BulkCreateDomains(t, domains, ts) ==
    IF Len(domains) = 0 THEN Ret(t, <<>>, NoErr)
    ELSE LET tx == TxInserts(t, domains, 1, ts)
         IN  IF tx.err # NoErr THEN Ret(TxRollback(t, tx.table), <<>>, tx.err)
             ELSE LET done == TxCommit(t, tx.table)
                  IN  Ret(done, FetchCreated(done, domains, 1), NoErr)

(* ------------------- callers of the registry --------------------------- *)

\* Backends (ip, port) and protocols handed to the registry by its callers.
Backends == {<<"10.0.0.1", 80>>, <<"10.0.0.2", 8080>>}
Protocols == {"", "http", "https"}

Req(domain, ip, port, protocol) ==
    [domain |-> domain, ip |-> ip, port |-> port, protocol |-> protocol]

\* models.CreateDomainRequest values.
CreateReqs ==
    {Req(d, b[1], b[2], p) : d \in Domains, b \in Backends, p \in Protocols}

\* models.UpdateDomainRequest values.
UpdateReqs ==
    {[ip |-> b[1], port |-> b[2], protocol |-> p] : b \in Backends, p \in Protocols}

\* Elements of the batches.
BatchReqs == {Req(d, "10.0.0.1", 80, p) : d \in Domains, p \in {"", "https"}}

RECURSIVE SeqsUpTo(_, _)
SeqsUpTo(S, n) ==
    IF n = 0 THEN {<<>>}
    ELSE LET shorter == SeqsUpTo(S, n - 1)
         IN  shorter \cup {Append(q, x) : q \in {s \in shorter : Len(s) = n - 1}, x \in S}

Batches == SeqsUpTo(BatchReqs, MaxBatch)

\* No call is being answered.
Idle == [op |-> "idle"]

\* The goroutines that call the registry at the same time.
Procs == {1, 2}

Init ==
    /\ table = {}
    /\ now = 0
    /\ last = Idle
    /\ calls = [p \in Procs |-> Idle]
    /\ start = {}

\* The call has returned to its caller (the response is written): the next
\* one is taken up.
Finish ==
    /\ last # Idle
    /\ last' = Idle
    /\ UNCHANGED <<table, now, calls, start>>

\* A second passes: CURRENT_TIMESTAMP advances.
Tick ==
    /\ now < MaxClock
    /\ now' = now + 1
    /\ UNCHANGED <<table, last, calls, start>>

\* What a completed registry call leaves behind: its arguments, the table
\* before it, and what it returned.
Called(op, arg, r) ==
    [op |-> op, arg |-> arg, pre |-> table, val |-> r.val, err |-> r.err]

DBGetDomain ==
    /\ last = Idle
    /\ \E d \in Domains, ioerr \in BOOLEAN :
        LET r == GetDomain(table, d, ioerr)
        IN  /\ table' = r.table
            /\ last' = Called("GetDomain", d, r)
            /\ UNCHANGED <<now, calls, start>>

DBCreateDomain ==
    /\ last = Idle
    /\ \E req \in CreateReqs :
        LET r == CreateDomain(table, req, now)
        IN  /\ table' = r.table
            /\ last' = Called("CreateDomain", req, r)
            /\ UNCHANGED <<now, calls, start>>

DBUpdateDomain ==
    /\ last = Idle
    /\ \E d \in Domains, req \in UpdateReqs :
        LET r == UpdateDomain(table, d, req, now)
        IN  /\ table' = r.table
            /\ last' = Called("UpdateDomain", [domain |-> d, req |-> req], r)
            /\ UNCHANGED <<now, calls, start>>

DBDeleteDomain ==
    /\ last = Idle
    /\ \E d \in Domains :
        LET r == DeleteDomain(table, d)
        IN  /\ table' = r.table
            /\ last' = Called("DeleteDomain", d, r)
            /\ UNCHANGED <<now, calls, start>>

DBBulkCreateDomains ==
    /\ last = Idle
    /\ \E domains \in Batches :
        LET r == BulkCreateDomains(table, domains, now)
        IN  /\ table' = r.table
            /\ last' = Called("BulkCreateDomains", domains, r)
            /\ UNCHANGED <<now, calls, start>>

NextRegistry ==
    \/ Tick
    \/ Finish
    \/ DBGetDomain
    \/ DBCreateDomain
    \/ DBUpdateDomain
    \/ DBDeleteDomain
    \/ DBBulkCreateDomains

\* The registry driven directly through the methods of DB.
SpecRegistry == Init /\ [][NextRegistry]_vars

(* ---------------- management API (handlers.go) ----------------------- *)

\* strings.LastIndex(host, ":"): 0 stands for Go's -1, positions count from 1.
LastIndex(s, c) ==
    LET at == {i \in 1..Len(s) : s[i] = c}
    IN  IF at = {} THEN 0 ELSE CHOOSE i \in at : \A j \in at : j <= i

\* domainName := host; if idx := LastIndex(host, ":"); idx != -1 { host[:idx] }
DomainName(host) ==
    LET idx == LastIndex(host, ":")
    IN  IF idx # 0 THEN SubSeq(host, 1, idx - 1) ELSE host

\* cfg.APIDomain and cfg.ProxyAPIKey, both required to be non-empty by init.
APIDomain == <<"m">>
apiKey == "k"
authToken == <<"Bearer ", apiKey>>

\* An HTTP response: the status written, the JSON value encoded (Nil when
\* none) and the text of http.Error ("" when none).
Response(t, status, val, msg) ==
    [table |-> t, status |-> status, val |-> val, msg |-> msg]

\* A chain of middleware without the check of the Authorization header.
MiddlewareMutant(host, auth) ==
    IF DomainName(host) # APIDomain THEN 403 ELSE 0

\* DomainMiddleware, then AuthMiddleware (main.go registers them in this
\* order): the status either answers with, or 0 when both let the request pass.
Middleware(host, auth) ==
    IF DomainName(host) # APIDomain THEN 403
    ELSE IF auth # authToken THEN 401
    ELSE 0

\* A request body that json.Decode rejects.
BadJSON == [malformed |-> TRUE]

\* url.PathUnescape: fails on a "%" that is not followed by two hex digits;
\* a parameter without "%" is returned as it is.
HexDigits == {"0", "1", "2", "3", "4", "5", "6", "7", "8", "9", "a", "b", "c",
              "d", "e", "f", "A", "B", "C", "D", "E", "F"}
PathUnescapeFails(s) ==
    \E i \in 1..Len(s) :
        /\ s[i] = "%"
        /\ (i + 2 > Len(s) \/ s[i + 1] \notin HexDigits \/ s[i + 2] \notin HexDigits)

\* Handlers.GetDomain: GET /api/config/{domain}
HandlersGetDomain(t, param, ioerr) ==
    IF PathUnescapeFails(param) THEN Response(t, 400, Nil, "Invalid domain parameter")
    ELSE LET r == GetDomain(t, param, ioerr)
         IN  IF r.err # NoErr THEN Response(t, 500, Nil, "Failed to retrieve domain: ")
             ELSE IF r.val = Nil THEN Response(t, 404, Nil, "Domain not found")
             ELSE Response(t, 200, r.val, "")

\* Handlers.CreateDomain: POST /api/config
HandlersCreateDomain(t, body, ts) ==
    IF body = BadJSON THEN Response(t, 400, Nil, "Invalid request body: ")
    ELSE IF body.domain = <<>> \/ body.ip = "" \/ body.port = 0
    THEN Response(t, 400, Nil, "Missing required fields: domain, ip, port")
    ELSE LET req == [body EXCEPT !.protocol = IF @ = "" THEN "http" ELSE @]
             r == CreateDomain(t, req, ts)
         IN  IF r.err # NoErr THEN Response(r.table, 500, Nil, "Failed to create domain: ")
             ELSE Response(r.table, 201, r.val, "")

\* Handlers.UpdateDomain: PUT /api/config/{domain}
HandlersUpdateDomain(t, param, body, ts) ==
    IF PathUnescapeFails(param) THEN Response(t, 400, Nil, "Invalid domain parameter")
    ELSE IF body = BadJSON THEN Response(t, 400, Nil, "Invalid request body: ")
    ELSE IF body.ip = "" \/ body.port = 0
    THEN Response(t, 400, Nil, "Missing required fields: ip, port")
    ELSE LET req == [body EXCEPT !.protocol = IF @ = "" THEN "http" ELSE @]
             r == UpdateDomain(t, param, req, ts)
         IN  IF r.err # NoErr THEN Response(r.table, 500, Nil, "Failed to update domain: ")
             ELSE IF r.val = Nil THEN Response(r.table, 404, Nil, "Domain not found")
             ELSE Response(r.table, 200, r.val, "")

\* Handlers.DeleteDomain: DELETE /api/config/{domain}
HandlersDeleteDomain(t, param) ==
    IF PathUnescapeFails(param) THEN Response(t, 400, Nil, "Invalid domain parameter")
    ELSE LET r == DeleteDomain(t, param)
         IN  IF r.err = "domain not found"
             THEN Response(r.table, 404, Nil, "Domain not found")
             ELSE IF r.err # NoErr
             THEN Response(r.table, 500, Nil, "Failed to delete domain: ")
             ELSE Response(r.table, 204, Nil, "")

\* A validation that looks at the first record of the batch only.
FirstInvalidMutant(domains) ==
    IF domains[1].domain = <<>> \/ domains[1].ip = "" \/ domains[1].port = 0
    THEN 1 ELSE 0

\* The validation loop of Handlers.BulkCreateDomains: 0 when every record has
\* its required fields, else the position of the first that has not.
FirstInvalid(domains) ==
    LET bad == {i \in 1..Len(domains) :
                   domains[i].domain = <<>> \/ domains[i].ip = "" \/ domains[i].port = 0}
    IN  IF bad = {} THEN 0 ELSE CHOOSE i \in bad : \A j \in bad : i <= j

\* Handlers.BulkCreateDomains: POST /api/config/bulk. The body is a JSON array
\* of records or an object with the array in its "domains" field.
HandlersBulkCreateDomains(t, body, ts) ==
    IF body = BadJSON
    THEN Response(t, 400, Nil, "Invalid request body: expected array of domains or object with 'domains' field")
    ELSE LET domains == body.domains
         IN  IF Len(domains) = 0 THEN Response(t, 400, Nil, "No domains provided")
             ELSE IF FirstInvalid(domains) # 0
             THEN Response(t, 400, Nil, "Missing required fields in domain at index")
             ELSE LET reqs == [i \in 1..Len(domains) |->
                                  [domains[i] EXCEPT
                                      !.protocol = IF @ = "" THEN "http" ELSE @]]
                      r == BulkCreateDomains(t, reqs, ts)
                  IN  IF r.err # NoErr
                      THEN Response(r.table, 500, Nil, "Failed to create domains: ")
                      ELSE Response(r.table, 201, r.val, "")

\* The byte of each character used in a domain name; SQLite's BINARY
\* collation orders TEXT by bytes.
ByteOf(c) ==
    CASE c = "%" -> 37 [] c = "1" -> 49 [] c = "8" -> 56 [] c = "0" -> 48
      [] c = ":" -> 58 [] c = "[" -> 91 [] c = "]" -> 93
      [] c = "a" -> 97 [] c = "b" -> 98 [] c = "m" -> 109

\* s1 sorts before s2.
Less(s1, s2) ==
    \E k \in 1..Len(s2) :
        /\ \A i \in 1..(k - 1) : i <= Len(s1) /\ s1[i] = s2[i]
        /\ (k > Len(s1) \/ (Len(s1) >= k /\ ByteOf(s1[k]) < ByteOf(s2[k])))
        /\ Len(s1) >= k - 1

\* GetAllDomains: SELECT ... ORDER BY domain.
RECURSIVE GetAllDomains(_)
GetAllDomains(t) ==
    IF t = {} THEN <<>>
    ELSE LET first == CHOOSE r \in t : \A q \in t : ~Less(q.domain, r.domain)
         IN  <<first>> \o GetAllDomains(t \ {first})

\* Handlers.ListDomains: GET /api/config
HandlersListDomains(t) == Response(t, 200, GetAllDomains(t), "")

(* ----------------------- reverse proxy (proxy.go) ---------------------- *)

\* strconv of the ports the model stores, as fmt.Sprintf("%d") prints them.
Itoa(n) ==
    CASE n = 80 -> <<"8", "0">> [] n = 8080 -> <<"8", "0", "8", "0">>
      [] n = -1 -> <<"-", "1">> [] n = 0 -> <<"0">>

\* url.Parse(fmt.Sprintf("%s://%s:%d", protocol, ip, port)): the scheme and
\* the host "ip:port" of the target; a port that is not all digits is an error.
ParseTarget(protocol, ip, port) ==
    [err |-> IF port < 0 THEN "invalid port" ELSE NoErr,
     Scheme |-> protocol,
     Host |-> <<ip, ":">> \o Itoa(port)]

\* A director that leaves the encoded path to be rebuilt from the decoded one.
DirectorMutant(req, r, target) ==
    [req EXCEPT !.URL = [@ EXCEPT !.Scheme = target.Scheme, !.Host = target.Host,
                                  !.Path = r.URL.Path, !.RawPath = "",
                                  !.RawQuery = r.URL.RawQuery,
                                  !.Fragment = r.URL.Fragment],
                !.Host = target.Host,
                !.RequestURI = ""]

\* proxy.Director: req is the outbound request (ReverseProxy's clone of the
\* inbound request r), target the parsed backend URL.
Director(req, r, target) ==
    [req EXCEPT !.URL = [@ EXCEPT !.Scheme = target.Scheme, !.Host = target.Host,
                                  !.Path = r.URL.Path, !.RawPath = r.URL.RawPath,
                                  !.RawQuery = r.URL.RawQuery,
                                  !.Fragment = r.URL.Fragment],
                !.Host = target.Host,
                !.RequestURI = ""]

\* What Proxy.ServeHTTP answered and did: the status and text written, the
\* domain names handed to GetDomain in order (lookups), and the request sent
\* to the backend (outreq, Nil when none was sent).
Outcome(status, msg, lookups, outreq) ==
    [status |-> status, msg |-> msg, lookups |-> lookups, outreq |-> outreq]

\* A ServeHTTP without the check of the Host header.
MissingHostMutant(host) == FALSE

\* The check of the Host header at the head of ServeHTTP.
MissingHost(host) == host = <<>>

\* A proxy that routes by the mappings it loaded when it started.
ServeHTTPCached(t, r, ioerr, backend) ==
    IF r.Host = <<>> THEN Outcome(400, <<"Missing Host header">>, <<>>, Nil)
    ELSE Outcome(404, <<"Domain not found">>, <<DomainName(r.Host)>>, Nil)

\* Proxy.ServeHTTP. ioerr: the lookup meets a storage failure. backend: what
\* the round trip to the backend gives, a response status or a transport
\* error; a scheme the transport does not speak is always an error.
ServeHTTP(t, r, ioerr, backend) ==
    IF MissingHost(r.Host) THEN Outcome(400, <<"Missing Host header">>, <<>>, Nil)
    ELSE LET domainName == DomainName(r.Host)
             domain == GetDomain(t, domainName, ioerr)
         IN  IF domain.err # NoErr
             THEN Outcome(500, <<"Internal server error">>, <<domainName>>, Nil)
             ELSE IF domain.val = Nil
             THEN Outcome(404, <<"Domain not found">>, <<domainName>>, Nil)
             ELSE LET target == ParseTarget(DefaultProtocol(domain.val.protocol),
                                            domain.val.ip, domain.val.port)
                  IN  IF target.err # NoErr
                      THEN Outcome(500, <<"Invalid target configuration">>,
                                   <<domainName>>, Nil)
                      ELSE LET outreq == Director(r, r, target)
                               rt == IF target.Scheme \notin {"http", "https"}
                                     THEN [err |-> "unsupported protocol scheme"]
                                     ELSE backend
                           IN  IF rt.err # NoErr
                               THEN Outcome(502, <<"Proxy error: ", rt.err>>,
                                            <<domainName>>, outreq)
                               ELSE Outcome(rt.status, <<>>, <<domainName>>, outreq)

(* ------------------------ the server (main.go) ------------------------ *)

\* Host and Authorization headers of requests to the management API.
ApiHosts == {APIDomain, APIDomain \o <<":", "8", "0">>, <<"a">>}
AuthHeaders == {authToken, <<"Bearer ", "x">>, <<>>}

\* JSON bodies of POST /api/config: records with every field, with a field
\* left out (its zero value), with ports and protocols of every kind.
CreateBodies ==
    {Req(d, "10.0.0.1", port, p) :
        d \in Domains, port \in {80, -1}, p \in {"", "https", "ftp"}}
    \cup {Req(<<>>, "10.0.0.1", 80, ""), Req(<<"a">>, "", 80, ""),
          Req(<<"a">>, "10.0.0.1", 0, ""), BadJSON}

\* JSON bodies of PUT /api/config/{domain}.
UpdateBodies ==
    {[ip |-> "10.0.0.1", port |-> port, protocol |-> p] :
        port \in {80, -1}, p \in {"", "https", "ftp"}}
    \cup {[ip |-> "", port |-> 80, protocol |-> ""],
          [ip |-> "10.0.0.1", port |-> 0, protocol |-> ""], BadJSON}

\* The {domain} of a path.
PathParams == Domains \cup {<<"%">>}

\* JSON bodies of POST /api/config/bulk.
ApiBatchReqs ==
    {Req(<<"a">>, "10.0.0.1", 80, ""), Req(<<"b">>, "10.0.0.1", 80, "ftp"),
     Req(<<"b">>, "", 80, "https")}
BulkBodies ==
    {[form |-> f, domains |-> b] :
        f \in {"array", "object"}, b \in SeqsUpTo(ApiBatchReqs, MaxBatch)}
    \cup {BadJSON}

\* Inbound requests to the proxy: r.Method, r.Host, r.URL, r.RequestURI.
ProxyHosts ==
    {<<>>, <<"a">>, <<"a", ":", "8", "0">>, <<"b">>, <<"[", ":", ":", "1", "]">>,
     <<"[", ":", ":", "1", "]", ":", "8", "0">>}
InboundTargets ==
    {[Method |-> "GET", RequestURI |-> "/a%2Fb?x=1#frag",
      URL |-> [Scheme |-> "", Host |-> <<>>, Path |-> "/a/b", RawPath |-> "/a%2Fb",
               RawQuery |-> "x=1", Fragment |-> "frag"]],
     [Method |-> "POST", RequestURI |-> "/",
      URL |-> [Scheme |-> "", Host |-> <<>>, Path |-> "/", RawPath |-> "",
               RawQuery |-> "", Fragment |-> ""]]}
Inbound ==
    {[Method |-> u.Method, Host |-> h, URL |-> u.URL, RequestURI |-> u.RequestURI] :
        h \in ProxyHosts, u \in InboundTargets}

\* What the round trip to the backend gives.
RoundTrips ==
    {[err |-> NoErr, status |-> 200], [err |-> NoErr, status |-> 404],
     [err |-> "connection refused"]}

\* A request the middleware answered: no handler ran.
Rejected(route, host, auth, status) ==
    [op |-> route, host |-> host, auth |-> auth, handled |-> FALSE,
     pre |-> table, status |-> status]

\* A request a handler answered.
Handled(route, host, auth, param, body, resp) ==
    [op |-> route, host |-> host, auth |-> auth, handled |-> TRUE,
     param |-> param, body |-> body, pre |-> table,
     status |-> resp.status, val |-> resp.val, msg |-> resp.msg]

ListDomainsRoute ==
    /\ last = Idle
    /\ \E host \in ApiHosts, auth \in AuthHeaders :
        LET mw == Middleware(host, auth)
        IN  \/ /\ mw # 0
               /\ last' = Rejected("GET /api/config", host, auth, mw)
               /\ UNCHANGED <<table, now, calls, start>>
            \/ /\ mw = 0
               /\ LET resp == HandlersListDomains(table)
                  IN  /\ table' = resp.table
                      /\ last' = Handled("GET /api/config", host, auth, <<>>, BadJSON, resp)
               /\ UNCHANGED <<now, calls, start>>

GetDomainRoute ==
    /\ last = Idle
    /\ \E host \in ApiHosts, auth \in AuthHeaders :
        LET mw == Middleware(host, auth)
        IN  \/ /\ mw # 0
               /\ last' = Rejected("GET /api/config/{domain}", host, auth, mw)
               /\ UNCHANGED <<table, now, calls, start>>
            \/ /\ mw = 0
               /\ \E param \in PathParams, ioerr \in BOOLEAN :
                      LET resp == HandlersGetDomain(table, param, ioerr)
                      IN  /\ table' = resp.table
                          /\ last' = Handled("GET /api/config/{domain}", host, auth,
                                             param, BadJSON, resp)
               /\ UNCHANGED <<now, calls, start>>

CreateDomainRoute ==
    /\ last = Idle
    /\ \E host \in ApiHosts, auth \in AuthHeaders :
        LET mw == Middleware(host, auth)
        IN  \/ /\ mw # 0
               /\ last' = Rejected("POST /api/config", host, auth, mw)
               /\ UNCHANGED <<table, now, calls, start>>
            \/ /\ mw = 0
               /\ \E body \in CreateBodies :
                      LET resp == HandlersCreateDomain(table, body, now)
                      IN  /\ table' = resp.table
                          /\ last' = Handled("POST /api/config", host, auth,
                                             <<>>, body, resp)
               /\ UNCHANGED <<now, calls, start>>

UpdateDomainRoute ==
    /\ last = Idle
    /\ \E host \in ApiHosts, auth \in AuthHeaders :
        LET mw == Middleware(host, auth)
        IN  \/ /\ mw # 0
               /\ last' = Rejected("PUT /api/config/{domain}", host, auth, mw)
               /\ UNCHANGED <<table, now, calls, start>>
            \/ /\ mw = 0
               /\ \E param \in PathParams, body \in UpdateBodies :
                      LET resp == HandlersUpdateDomain(table, param, body, now)
                      IN  /\ table' = resp.table
                          /\ last' = Handled("PUT /api/config/{domain}", host, auth,
                                             param, body, resp)
               /\ UNCHANGED <<now, calls, start>>

DeleteDomainRoute ==
    /\ last = Idle
    /\ \E host \in ApiHosts, auth \in AuthHeaders :
        LET mw == Middleware(host, auth)
        IN  \/ /\ mw # 0
               /\ last' = Rejected("DELETE /api/config/{domain}", host, auth, mw)
               /\ UNCHANGED <<table, now, calls, start>>
            \/ /\ mw = 0
               /\ \E param \in PathParams :
                      LET resp == HandlersDeleteDomain(table, param)
                      IN  /\ table' = resp.table
                          /\ last' = Handled("DELETE /api/config/{domain}", host, auth,
                                             param, BadJSON, resp)
               /\ UNCHANGED <<now, calls, start>>

BulkCreateDomainsRoute ==
    /\ last = Idle
    /\ \E host \in ApiHosts, auth \in AuthHeaders :
        LET mw == Middleware(host, auth)
        IN  \/ /\ mw # 0
               /\ last' = Rejected("POST /api/config/bulk", host, auth, mw)
               /\ UNCHANGED <<table, now, calls, start>>
            \/ /\ mw = 0
               /\ \E body \in BulkBodies :
                      LET resp == HandlersBulkCreateDomains(table, body, now)
                      IN  /\ table' = resp.table
                          /\ last' = Handled("POST /api/config/bulk", host, auth,
                                             <<>>, body, resp)
               /\ UNCHANGED <<now, calls, start>>

\* A proxy that forgets every mapping once it has served a request.
ProxyRouteMutant ==
    /\ last = Idle
    /\ \E r \in Inbound, ioerr \in BOOLEAN, backend \in RoundTrips :
        LET out == ServeHTTP(table, r, ioerr, backend)
        IN  /\ last' = [op |-> "ServeHTTP", r |-> r, ioerr |-> ioerr,
                        backend |-> backend, pre |-> table, status |-> out.status,
                        msg |-> out.msg, lookups |-> out.lookups,
                        outreq |-> out.outreq]
            /\ table' = {}
            /\ UNCHANGED <<now, calls, start>>

\* router.PathPrefix("/").Handler(proxyHandler): every other request.
ProxyRoute ==
    /\ last = Idle
    /\ \E r \in Inbound, ioerr \in BOOLEAN, backend \in RoundTrips :
        LET out == ServeHTTP(table, r, ioerr, backend)
        IN  /\ last' = [op |-> "ServeHTTP", r |-> r, ioerr |-> ioerr,
                        backend |-> backend, pre |-> table, status |-> out.status,
                        msg |-> out.msg, lookups |-> out.lookups,
                        outreq |-> out.outreq]
            /\ UNCHANGED <<table, now, calls, start>>

Next ==
    \/ Tick
    \/ Finish
    \/ ListDomainsRoute
    \/ GetDomainRoute
    \/ CreateDomainRoute
    \/ UpdateDomainRoute
    \/ DeleteDomainRoute
    \/ BulkCreateDomainsRoute
    \/ ProxyRoute

\* The server: the management API and the proxy behind one router.
Spec == Init /\ [][Next]_vars

(* ------------- concurrent callers of the registry (db.go) -------------- *)

\* database/sql hands every goroutine a connection of its own to the one
\* database file (sql.Open, no SetMaxOpenConns); the connection string sets no
\* busy_timeout: a statement that needs the write lock while another
\* connection holds it fails at once.
Busy == "database is locked"

\* Requests of the concurrent callers.
ConcUpdateReqs ==
    {[ip |-> "10.0.0.1", port |-> 80, protocol |-> ""],
     [ip |-> "10.0.0.2", port |-> 8080, protocol |-> "http"]}

\* A call that has returned val, err to its goroutine.
Done(op, arg, val, err) ==
    [op |-> op, arg |-> arg, pc |-> "done", lock |-> FALSE, val |-> val, err |-> err]

\* The connection of call c holds the write lock of the database file.
HoldsLock(c) == c # Idle /\ c.lock

\* Another connection than p's holds the write lock.
Locked(p) == \E q \in Procs \ {p} : HoldsLock(calls[q])

\* row.Scan of GetDomain, a single SELECT.
GetDomainQuery(p) ==
    /\ calls[p] = Idle
    /\ \E d \in Domains :
        LET r == GetDomain(table, d, FALSE)
        IN  calls' = [calls EXCEPT ![p] = Done("GetDomain", d, r.val, r.err)]
    /\ UNCHANGED <<table, now, last, start>>

\* GetAllDomains, a single SELECT ... ORDER BY domain.
GetAllDomainsQuery(p) ==
    /\ calls[p] = Idle
    /\ calls' = [calls EXCEPT ![p] =
                    Done("GetAllDomains", <<>>, GetAllDomains(table), NoErr)]
    /\ UNCHANGED <<table, now, last, start>>

\* CreateDomain: db.conn.Exec(INSERT) asks for the write lock.
CreateDomainExec(p) ==
    /\ calls[p] = Idle
    /\ \E req \in BatchReqs :
        calls' = [calls EXCEPT ![p] =
            IF Locked(p) THEN Done("CreateDomain", req, Nil, Busy)
            ELSE [op |-> "CreateDomain", arg |-> req, pc |-> "apply", lock |-> TRUE]]
    /\ UNCHANGED <<table, now, last, start>>

\* CreateDomain: the INSERT is applied and its lock released.
CreateDomainApply(p) ==
    /\ calls[p] # Idle /\ calls[p].op = "CreateDomain" /\ calls[p].pc = "apply"
    /\ LET req == calls[p].arg
           ins == ExecInsert(table, req.domain, req.ip, req.port,
                             DefaultProtocol(req.protocol), now)
       IN  /\ table' = ins.table
           /\ calls' = [calls EXCEPT ![p] =
                IF ins.err # NoErr
                THEN Done("CreateDomain", req, Nil, "failed to create domain")
                ELSE [op |-> "CreateDomain", arg |-> req, pc |-> "fetch",
                      lock |-> FALSE]]
    /\ UNCHANGED <<now, last, start>>

\* CreateDomain: return db.GetDomain(req.Domain).
CreateDomainFetch(p) ==
    /\ calls[p] # Idle /\ calls[p].op = "CreateDomain" /\ calls[p].pc = "fetch"
    /\ LET r == GetDomain(table, calls[p].arg.domain, FALSE)
       IN  calls' = [calls EXCEPT ![p] =
                        Done("CreateDomain", calls[p].arg, r.val, r.err)]
    /\ UNCHANGED <<table, now, last, start>>

\* UpdateDomain with an empty protocol: existing, err := db.GetDomain(domain).
UpdateDomainRead(p) ==
    /\ calls[p] = Idle
    /\ \E d \in Domains, req \in {u \in ConcUpdateReqs : u.protocol = ""} :
        LET arg == [domain |-> d, req |-> req]
            r == GetDomain(table, d, FALSE)
        IN  calls' = [calls EXCEPT ![p] =
                IF r.val = Nil THEN Done("UpdateDomain", arg, Nil, NoErr)
                ELSE [op |-> "UpdateDomain", arg |-> arg, pc |-> "exec",
                      lock |-> FALSE, existing |-> r.val]]
    /\ UNCHANGED <<table, now, last, start>>

\* What db.conn.Exec(UPDATE) leaves of the call: it asks for the write lock.
UpdateDomainLock(p, arg, existing) ==
    IF Locked(p) THEN Done("UpdateDomain", arg, Nil, Busy)
    ELSE [op |-> "UpdateDomain", arg |-> arg, pc |-> "apply", lock |-> TRUE,
          existing |-> existing]

\* UpdateDomain: db.conn.Exec(UPDATE), reached at once when the request has a
\* protocol and after the read of the existing row when it has none.
UpdateDomainExec(p) ==
    /\ \/ /\ calls[p] = Idle
          /\ \E d \in Domains, req \in {u \in ConcUpdateReqs : u.protocol # ""} :
                calls' = [calls EXCEPT ![p] =
                    UpdateDomainLock(p, [domain |-> d, req |-> req], Nil)]
       \/ /\ calls[p] # Idle /\ calls[p].op = "UpdateDomain" /\ calls[p].pc = "exec"
          /\ calls' = [calls EXCEPT ![p] =
                UpdateDomainLock(p, calls[p].arg, calls[p].existing)]
    /\ UNCHANGED <<table, now, last, start>>

\* UpdateDomain: the UPDATE is applied with the protocol chosen before it, and
\* its lock released.
UpdateDomainApply(p) ==
    /\ calls[p] # Idle /\ calls[p].op = "UpdateDomain" /\ calls[p].pc = "apply"
    /\ LET arg == calls[p].arg
           upd == ExecUpdate(table, arg.domain, arg.req.ip, arg.req.port,
                             UpdateProtocol(calls[p].existing, arg.req.protocol), now)
       IN  /\ table' = upd.table
           /\ calls' = [calls EXCEPT ![p] =
                IF upd.rowsAffected = 0 THEN Done("UpdateDomain", arg, Nil, NoErr)
                ELSE [op |-> "UpdateDomain", arg |-> arg, pc |-> "fetch",
                      lock |-> FALSE, existing |-> calls[p].existing]]
    /\ UNCHANGED <<now, last, start>>

\* UpdateDomain: return db.GetDomain(domain).
UpdateDomainFetch(p) ==
    /\ calls[p] # Idle /\ calls[p].op = "UpdateDomain" /\ calls[p].pc = "fetch"
    /\ LET r == GetDomain(table, calls[p].arg.domain, FALSE)
       IN  calls' = [calls EXCEPT ![p] =
                        Done("UpdateDomain", calls[p].arg, r.val, r.err)]
    /\ UNCHANGED <<table, now, last, start>>

\* DeleteDomain: db.conn.Exec(DELETE) asks for the write lock.
DeleteDomainExec(p) ==
    /\ calls[p] = Idle
    /\ \E d \in Domains :
        calls' = [calls EXCEPT ![p] =
            IF Locked(p) THEN Done("DeleteDomain", d, Nil, Busy)
            ELSE [op |-> "DeleteDomain", arg |-> d, pc |-> "apply", lock |-> TRUE]]
    /\ UNCHANGED <<table, now, last, start>>

\* DeleteDomain: the DELETE is applied and its lock released.
DeleteDomainApply(p) ==
    /\ calls[p] # Idle /\ calls[p].op = "DeleteDomain" /\ calls[p].pc = "apply"
    /\ LET del == ExecDelete(table, calls[p].arg)
       IN  /\ table' = del.table
           /\ calls' = [calls EXCEPT ![p] =
                Done("DeleteDomain", calls[p].arg, Nil,
                     IF del.rowsAffected = 0 THEN "domain not found" ELSE NoErr)]
    /\ UNCHANGED <<now, last, start>>

\* Statements executed without a transaction: every insert is committed as
\* it is made.
TxPendingAutocommit(t, view) == {}

\* The rows a transaction has written and not committed: in its view, not in
\* the table the other connections read.
TxPending(t, view) == view \ t

\* BulkCreateDomains: tx, err := db.conn.Begin(); no lock is taken yet.
BulkBegin(p) ==
    /\ calls[p] = Idle
    /\ \E domains \in Batches :
        calls' = [calls EXCEPT ![p] =
            IF Len(domains) = 0 THEN Done("BulkCreateDomains", domains, <<>>, NoErr)
            ELSE [op |-> "BulkCreateDomains", arg |-> domains, pc |-> "insert",
                  lock |-> FALSE, i |-> 1, tx |-> {}, created |-> <<>>,
                  err |-> NoErr]]
    /\ UNCHANGED <<table, now, last, start>>

\* BulkCreateDomains: stmt.Exec of the i-th record inside the transaction; the
\* first one asks for the write lock, which the transaction keeps.
BulkStmtExec(p) ==
    /\ calls[p] # Idle /\ calls[p].op = "BulkCreateDomains" /\ calls[p].pc = "insert"
    /\ LET c == calls[p]
           req == c.arg[c.i]
           ins == ExecInsert(table \cup c.tx, req.domain, req.ip, req.port,
                             DefaultProtocol(req.protocol), now)
           pending == TxPending(table, ins.table)
       IN  IF ~c.lock /\ Locked(p)
           THEN /\ calls' = [calls EXCEPT ![p] =
                        [c EXCEPT !.pc = "rollback", !.err = Busy]]
                /\ UNCHANGED table
           ELSE IF ins.err # NoErr
           THEN /\ calls' = [calls EXCEPT ![p] =
                        [c EXCEPT !.pc = "rollback", !.lock = TRUE,
                                  !.err = "failed to create domain"]]
                /\ UNCHANGED table
           ELSE /\ table' = ins.table \ pending
                /\ calls' = [calls EXCEPT ![p] =
                        [c EXCEPT !.pc = IF c.i = Len(c.arg) THEN "commit" ELSE "insert",
                                  !.lock = TRUE, !.i = c.i + 1, !.tx = pending]]
    /\ UNCHANGED <<now, last, start>>

\* BulkCreateDomains: tx.Commit() publishes the inserts and releases the lock.
BulkCommit(p) ==
    /\ calls[p] # Idle /\ calls[p].op = "BulkCreateDomains" /\ calls[p].pc = "commit"
    /\ table' = TxCommit(table, table \cup calls[p].tx)
    /\ calls' = [calls EXCEPT ![p] =
            [calls[p] EXCEPT !.pc = "fetch", !.lock = FALSE, !.i = 1, !.tx = {}]]
    /\ UNCHANGED <<now, last, start>>

\* BulkCreateDomains: the deferred tx.Rollback() of a return with an error.
BulkRollback(p) ==
    /\ calls[p] # Idle /\ calls[p].op = "BulkCreateDomains" /\ calls[p].pc = "rollback"
    /\ table' = TxRollback(table, table \cup calls[p].tx)
    /\ calls' = [calls EXCEPT ![p] =
            Done("BulkCreateDomains", calls[p].arg, <<>>, calls[p].err)]
    /\ UNCHANGED <<now, last, start>>

\* BulkCreateDomains: db.GetDomain of the i-th name after the commit; a name
\* that is no longer stored is skipped.
BulkFetch(p) ==
    /\ calls[p] # Idle /\ calls[p].op = "BulkCreateDomains" /\ calls[p].pc = "fetch"
    /\ LET c == calls[p]
           r == GetDomain(table, c.arg[c.i].domain, FALSE)
           created == c.created \o (IF r.val # Nil THEN <<r.val>> ELSE <<>>)
       IN  calls' = [calls EXCEPT ![p] =
                IF c.i = Len(c.arg) THEN Done("BulkCreateDomains", c.arg, created, NoErr)
                ELSE [c EXCEPT !.i = c.i + 1, !.created = created]]
    /\ UNCHANGED <<table, now, last, start>>

\* Every goroutine's call is over.
AllReturned ==
    \A p \in Procs : IF calls[p] = Idle THEN TRUE ELSE calls[p].pc = "done"

\* The callers take their results; the next calls start from the table the
\* finished ones left.
Return ==
    /\ AllReturned
    /\ \E p \in Procs : calls[p] # Idle
    /\ calls' = [p \in Procs |-> Idle]
    /\ start' = table
    /\ UNCHANGED <<table, now, last>>

NextConc ==
    \/ Return
    \/ \E p \in Procs : GetDomainQuery(p)
    \/ \E p \in Procs : GetAllDomainsQuery(p)
    \/ \E p \in Procs : CreateDomainExec(p)
    \/ \E p \in Procs : CreateDomainApply(p)
    \/ \E p \in Procs : CreateDomainFetch(p)
    \/ \E p \in Procs : UpdateDomainRead(p)
    \/ \E p \in Procs : UpdateDomainExec(p)
    \/ \E p \in Procs : UpdateDomainApply(p)
    \/ \E p \in Procs : UpdateDomainFetch(p)
    \/ \E p \in Procs : DeleteDomainExec(p)
    \/ \E p \in Procs : DeleteDomainApply(p)
    \/ \E p \in Procs : BulkBegin(p)
    \/ \E p \in Procs : BulkStmtExec(p)
    \/ \E p \in Procs : BulkCommit(p)
    \/ \E p \in Procs : BulkRollback(p)
    \/ \E p \in Procs : BulkFetch(p)

\* The registry called by goroutines at the same time, statement by statement.
SpecConc == Init /\ [][NextConc]_vars

(* ------------------- properties of the registry ------------------------ *)

\* The rows of t stored under domain d.
RowsOf(t, d) == {r \in t : r.domain = d}

\* A batch has a record that cannot be inserted into t: its domain is already
\* in t, or occurs earlier in the batch.
BatchHasDuplicate(t, batch) ==
    \/ \E i \in 1..Len(batch) : RowsOf(t, batch[i].domain) # {}
    \/ \E i, j \in 1..Len(batch) : i < j /\ batch[i].domain = batch[j].domain

\* The row a creation request is stored as.
StoredAs(r, req) ==
    /\ r.domain = req.domain
    /\ r.ip = req.ip
    /\ r.port = req.port
    /\ r.protocol = (IF req.protocol = "" THEN "http" ELSE req.protocol)

\* C1: BulkCreateDomains is all-or-nothing. A batch with a duplicate domain
\* (against the table or within the batch) returns an error and leaves the
\* table exactly as it was before the call; any other batch returns no error
\* and afterwards every record of the batch is in the table, beside the rows
\* that were there before.
C1_BulkAllOrNothing ==
    last.op = "BulkCreateDomains" =>
        IF BatchHasDuplicate(last.pre, last.arg)
        THEN last.err # NoErr /\ table = last.pre
        ELSE /\ last.err = NoErr
             /\ last.pre \subseteq table
             /\ \A i \in 1..Len(last.arg) : \E r \in table : StoredAs(r, last.arg[i])

\* C1 witness: a batch failed at its second record after its first record had
\* been inserted inside the transaction.
C1_Witness ==
    /\ last.op = "BulkCreateDomains"
    /\ last.err # NoErr
    /\ Len(last.arg) >= 2
    /\ RowsOf(last.pre, last.arg[1].domain) = {}
    /\ RowsOf(last.pre, last.arg[2].domain) # {}

\* C2: CreateDomain of a domain that is already stored returns an error and
\* leaves the stored record (ip, port, protocol, created_at, updated_at) and
\* the rest of the table unchanged; and no state holds two rows for one domain.
C2_InsertDuplicateFails ==
    /\ \A r1, r2 \in table : r1.domain = r2.domain => r1 = r2
    /\ (last.op = "CreateDomain" /\ RowsOf(last.pre, last.arg.domain) # {}) =>
           /\ last.err # NoErr
           /\ last.val = Nil
           /\ RowsOf(table, last.arg.domain) = RowsOf(last.pre, last.arg.domain)
           /\ table = last.pre

\* C2 witness: a CreateDomain of a stored domain, with a backend other than the
\* stored one, has returned.
C2_Witness ==
    /\ last.op = "CreateDomain"
    /\ \E r \in last.pre : r.domain = last.arg.domain /\ r.ip # last.arg.ip

\* C4: UpdateDomain of a stored domain stores the request's ip and port; with
\* an empty protocol it keeps the stored protocol, with a non-empty protocol it
\* stores the request's; the record returned is the stored one.
C4_UpdateKeepsOrOverwritesScheme ==
    (last.op = "UpdateDomain" /\ RowsOf(last.pre, last.arg.domain) # {}) =>
        \A old \in RowsOf(last.pre, last.arg.domain) :
            /\ last.err = NoErr
            /\ RowsOf(table, last.arg.domain) = {last.val}
            /\ last.val.ip = last.arg.req.ip
            /\ last.val.port = last.arg.req.port
            /\ last.val.protocol = (IF last.arg.req.protocol = "" THEN old.protocol
                                    ELSE last.arg.req.protocol)

\* C4 witness: an update with an empty protocol moved a record stored with
\* https to another ip.
C4_Witness ==
    /\ last.op = "UpdateDomain"
    /\ last.arg.req.protocol = ""
    /\ \E old \in RowsOf(last.pre, last.arg.domain) :
           old.protocol = "https" /\ old.ip # last.arg.req.ip

\* C17: DeleteDomain of a domain that is not stored returns "domain not
\* found" and leaves the table unchanged; DeleteDomain of a stored domain
\* returns no error and removes that record and no other, after which
\* GetDomain of the domain returns nil.
C17_DeleteNotFoundOrRemoves ==
    last.op = "DeleteDomain" =>
        IF RowsOf(last.pre, last.arg) = {}
        THEN last.err = "domain not found" /\ table = last.pre
        ELSE /\ last.err = NoErr
             /\ table = last.pre \ RowsOf(last.pre, last.arg)
             /\ GetDomain(table, last.arg, FALSE).val = Nil

\* C17 witness: one of two stored records was deleted.
C17_Witness ==
    /\ last.op = "DeleteDomain"
    /\ last.err = NoErr
    /\ Cardinality(last.pre) = 2

\* C18: UpdateDomain of a domain that is not stored returns nil and no error
\* and leaves the table unchanged, with an empty protocol and with a
\* non-empty one.
C18_UpdateAbsentIsNoOp ==
    (last.op = "UpdateDomain" /\ RowsOf(last.pre, last.arg.domain) = {}) =>
        last.val = Nil /\ last.err = NoErr /\ table = last.pre

\* C18 witness: an update with a protocol was applied to a domain that is
\* not stored while another domain is.
C18_Witness ==
    /\ last.op = "UpdateDomain"
    /\ last.arg.req.protocol = "https"
    /\ RowsOf(last.pre, last.arg.domain) = {}
    /\ last.pre # {}

\* The creation requests of the call answered last: the request of
\* CreateDomain, the batch of BulkCreateDomains.
CreatedBy ==
    IF last.op = "CreateDomain" THEN <<last.arg>>
    ELSE IF last.op = "BulkCreateDomains" THEN last.arg
    ELSE <<>>

\* The records the call answered last returned.
ReturnedBy == IF last.op = "CreateDomain" THEN <<last.val>> ELSE last.val

\* C19: a CreateDomain or BulkCreateDomains that returns no error stores
\* protocol http for each record whose protocol is empty and the given
\* protocol otherwise; the records it returns, in order, and a GetDomain of
\* each domain afterwards show that protocol.
C19_InsertDefaultsScheme ==
    (last.op \in {"CreateDomain", "BulkCreateDomains"} /\ last.err = NoErr) =>
        /\ Len(ReturnedBy) = Len(CreatedBy)
        /\ \A i \in 1..Len(CreatedBy) :
               LET want == IF CreatedBy[i].protocol = "" THEN "http"
                           ELSE CreatedBy[i].protocol
               IN  /\ \A r \in RowsOf(table, CreatedBy[i].domain) : r.protocol = want
                   /\ RowsOf(table, CreatedBy[i].domain) # {}
                   /\ ReturnedBy[i].domain = CreatedBy[i].domain
                   /\ ReturnedBy[i].protocol = want
                   /\ GetDomain(table, CreatedBy[i].domain, FALSE).val.protocol = want

\* C19 witness: a batch of a record without protocol and a record with https
\* was stored.
C19_Witness ==
    /\ last.op = "BulkCreateDomains"
    /\ last.err = NoErr
    /\ Len(last.arg) = 2
    /\ last.arg[1].protocol = ""
    /\ last.arg[2].protocol = "https"

\* The domain a CreateDomain, UpdateDomain or DeleteDomain call is about.
TargetOf(call) ==
    IF call.op = "DeleteDomain" THEN call.arg ELSE call.arg.domain

\* C20: a CreateDomain, UpdateDomain or DeleteDomain of one domain leaves the
\* record, or the absence, of every other domain as it was; a record created
\* is the one GetDomain of its domain returns.
C20_NoCrossTalk ==
    last.op \in {"CreateDomain", "UpdateDomain", "DeleteDomain"} =>
        /\ \A d \in Domains \ {TargetOf(last)} :
               RowsOf(table, d) = RowsOf(last.pre, d)
        /\ (last.op = "CreateDomain" /\ last.err = NoErr) =>
               /\ StoredAs(last.val, last.arg)
               /\ GetDomain(table, last.arg.domain, FALSE).val = last.val

\* C20 witness: a record was updated while the other domain was stored with
\* another backend.
C20_Witness ==
    /\ last.op = "UpdateDomain"
    /\ last.val # Nil
    /\ \E r \in table : r.domain # last.arg.domain /\ r.ip # last.arg.req.ip

(* -------------------- properties of the server ------------------------- *)

\* C3: a PUT /api/config/{domain} whose body has no protocol keeps the stored
\* protocol of the domain: the record's protocol after the request is the one
\* it had before.
C3_ApiUpdateKeepsProtocol ==
    (/\ last.op = "PUT /api/config/{domain}"
     /\ last.handled
     /\ last.body # BadJSON
     /\ last.body.protocol = "") =>
        \A old \in RowsOf(last.pre, last.param), new \in RowsOf(table, last.param) :
            new.protocol = old.protocol

\* C5: the protocol of every stored record is http or https.
C5_SchemeRecognized ==
    \A r \in table : r.protocol \in {"http", "https"}

\* C6: every stored record has a non-empty ip and a port in 1..65535.
C6_AddressAndPortValid ==
    \A r \in table : r.ip # "" /\ r.port \in 1..65535

\* The backend ServeHTTP resolved for the request it answered last.
Resolved == RowsOf(last.pre, DomainName(last.r.Host))

\* C7: the request sent to the backend is the inbound request with URL.Scheme,
\* URL.Host and Host set to the resolved backend and RequestURI cleared; its
\* method, URL.Path, URL.RawPath, URL.RawQuery and URL.Fragment are those of
\* the inbound request.
C7_ForwardPreservesRequest ==
    (last.op = "ServeHTTP" /\ last.outreq # Nil) =>
        /\ last.outreq.Method = last.r.Method
        /\ last.outreq.URL.Path = last.r.URL.Path
        /\ last.outreq.URL.RawPath = last.r.URL.RawPath
        /\ last.outreq.URL.RawQuery = last.r.URL.RawQuery
        /\ last.outreq.URL.Fragment = last.r.URL.Fragment
        /\ last.outreq.RequestURI = ""
        /\ \E b \in Resolved :
               /\ last.outreq.URL.Scheme = b.protocol
               /\ last.outreq.URL.Host = <<b.ip, ":">> \o Itoa(b.port)
               /\ last.outreq.Host = last.outreq.URL.Host
        /\ \A f \in DOMAIN last.r : f \notin {"URL", "Host", "RequestURI"} =>
               last.outreq[f] = last.r[f]
        /\ \A f \in DOMAIN last.r.URL : f \notin {"Scheme", "Host"} =>
               last.outreq.URL[f] = last.r.URL[f]

\* C7 witness: a request with a percent-encoded path, a query, a fragment and
\* a port in its host was forwarded and the backend answered.
C7_Witness ==
    /\ last.op = "ServeHTTP"
    /\ last.outreq # Nil
    /\ last.r.URL.RawPath = "/a%2Fb"
    /\ last.r.URL.Fragment = "frag"
    /\ last.r.Host = <<"a", ":", "8", "0">>
    /\ last.status = 200

\* C8: for a request with a host, a storage error in the lookup answers 500
\* whether or not the domain is stored; a lookup that finds no record answers
\* 404; in both cases nothing is sent to the backend; a failed round trip to
\* a resolved backend answers 502.
C8_RoutingFailuresDistinct ==
    (last.op = "ServeHTTP" /\ last.r.Host # <<>>) =>
        /\ last.ioerr => last.status = 500 /\ last.outreq = Nil
        /\ (~last.ioerr /\ Resolved = {}) => last.status = 404 /\ last.outreq = Nil
        /\ (/\ ~last.ioerr
            /\ \E b \in Resolved : b.port >= 0
            /\ last.backend.err # NoErr) => last.status = 502 /\ last.outreq # Nil

\* C8 witness: the lookup of a stored domain met a storage error.
C8_Witness ==
    /\ last.op = "ServeHTTP"
    /\ last.ioerr
    /\ Resolved # {}

\* A host ends in a port: a colon followed by digits only.
Digits == {"0", "1", "2", "3", "4", "5", "6", "7", "8", "9"}
PortSuffixAt(h, i) == h[i] = ":" /\ \A j \in (i + 1)..Len(h) : h[j] \in Digits

\* C9: the domain looked up is the request host without its trailing :port
\* when it has one, and the request host itself when it has none.
C9_RoutingKeyStripsPort ==
    (last.op = "ServeHTTP" /\ last.lookups # <<>>) =>
        LET h == last.r.Host
        IN  IF \E i \in 1..Len(h) : PortSuffixAt(h, i)
            THEN \E i \in 1..Len(h) :
                     PortSuffixAt(h, i) /\ last.lookups[1] = SubSeq(h, 1, i - 1)
            ELSE last.lookups[1] = h

\* C10: a request with an empty host is answered 400, no lookup is made and
\* nothing is sent to the backend.
C10_EmptyHostRejected ==
    (last.op = "ServeHTTP" /\ last.r.Host = <<>>) =>
        last.status = 400 /\ last.lookups = <<>> /\ last.outreq = Nil

\* C10 witness: a request with an empty host was answered while the table
\* held records.
C10_Witness ==
    /\ last.op = "ServeHTTP"
    /\ last.r.Host = <<>>
    /\ table # {}

\* The routes of the management API.
ApiRoutes ==
    {"GET /api/config", "GET /api/config/{domain}", "POST /api/config",
     "PUT /api/config/{domain}", "DELETE /api/config/{domain}",
     "POST /api/config/bulk"}

\* A record of a request body lacks a required field.
LacksField(rec) == rec.domain = <<>> \/ rec.ip = "" \/ rec.port = 0

\* C11: the management API answers 409 to the creation (single or bulk) of a
\* domain that already exists, 404 to the update, deletion or retrieval of a
\* domain that does not exist, and 400 to a request that lacks a required
\* field.
C11_ApiStatusCodes ==
    (last.op \in ApiRoutes /\ last.handled) =>
        /\ (/\ last.op = "POST /api/config"
            /\ last.body # BadJSON
            /\ ~LacksField(last.body)
            /\ RowsOf(last.pre, last.body.domain) # {}) => last.status = 409
        /\ (/\ last.op = "POST /api/config/bulk"
            /\ last.body # BadJSON
            /\ Len(last.body.domains) > 0
            /\ \A i \in 1..Len(last.body.domains) : ~LacksField(last.body.domains[i])
            /\ BatchHasDuplicate(last.pre, last.body.domains)) => last.status = 409
        /\ (/\ last.op \in {"GET /api/config/{domain}", "DELETE /api/config/{domain}"}
            /\ last.param \in Domains
            /\ RowsOf(last.pre, last.param) = {}
            /\ last.status # 500) => last.status = 404
        /\ (/\ last.op = "PUT /api/config/{domain}"
            /\ last.param \in Domains
            /\ last.body # BadJSON
            /\ last.body.ip # "" /\ last.body.port # 0
            /\ RowsOf(last.pre, last.param) = {}) => last.status = 404
        /\ (/\ last.op = "POST /api/config"
            /\ last.body # BadJSON
            /\ LacksField(last.body)) => last.status = 400
        /\ (/\ last.op = "PUT /api/config/{domain}"
            /\ last.body # BadJSON
            /\ (last.body.ip = "" \/ last.body.port = 0)) => last.status = 400

\* The host of a request is the administrative domain, alone or followed by
\* a colon and a port.
HostIsAdmin(h) ==
    \/ h = APIDomain
    \/ \E i \in 1..Len(h) :
           /\ h[i] = ":"
           /\ SubSeq(h, 1, i - 1) = APIDomain
           /\ \A j \in (i + 1)..Len(h) : h[j] # ":"

\* C12: a handler of the management API runs only for a request whose host
\* is the administrative domain and whose Authorization header is "Bearer "
\* followed by the API key; a request with another host is answered 403, one
\* with the right host and another Authorization header 401, and in both
\* cases no handler runs and the table is unchanged.
C12_ApiGuardedByHostAndKey ==
    last.op \in ApiRoutes =>
        /\ last.handled => HostIsAdmin(last.host) /\ last.auth = <<"Bearer ", apiKey>>
        /\ ~HostIsAdmin(last.host) =>
               last.status = 403 /\ ~last.handled /\ table = last.pre
        /\ (HostIsAdmin(last.host) /\ last.auth # <<"Bearer ", apiKey>>) =>
               last.status = 401 /\ ~last.handled /\ table = last.pre

\* C12 witness: a deletion sent to the administrative host, port included,
\* with a wrong key was answered while the table held records.
C12_Witness ==
    /\ last.op = "DELETE /api/config/{domain}"
    /\ last.host = <<"m", ":", "8", "0">>
    /\ last.auth = <<"Bearer ", "x">>
    /\ table # {}

\* C13: a creation whose body lacks domain, ip or port, an update whose body
\* lacks ip or port, and a bulk creation whose batch is empty or has a record
\* at any position that lacks domain, ip or port, are answered 400 and leave
\* the table as it was.
C13_ValidationBeforeMutation ==
    (last.op \in ApiRoutes /\ last.handled /\ last.body # BadJSON) =>
        /\ (last.op = "POST /api/config" /\ LacksField(last.body)) =>
               last.status = 400 /\ table = last.pre
        /\ (/\ last.op = "PUT /api/config/{domain}"
            /\ (last.body.ip = "" \/ last.body.port = 0)) =>
               last.status = 400 /\ table = last.pre
        /\ (/\ last.op = "POST /api/config/bulk"
            /\ \/ Len(last.body.domains) = 0
               \/ \E i \in 1..Len(last.body.domains) :
                      LacksField(last.body.domains[i])) =>
               last.status = 400 /\ table = last.pre

\* C13 witness: a batch whose first record is complete and absent from the
\* table and whose second record lacks a field was answered.
C13_Witness ==
    /\ last.op = "POST /api/config/bulk"
    /\ last.handled
    /\ last.body # BadJSON
    /\ Len(last.body.domains) = 2
    /\ ~LacksField(last.body.domains[1])
    /\ RowsOf(last.pre, last.body.domains[1].domain) = {}
    /\ LacksField(last.body.domains[2])

(* --------------- properties of the concurrent registry ----------------- *)

\* The goroutines whose call of this round is op.
Calling(op) == {p \in Procs : IF calls[p] = Idle THEN FALSE ELSE calls[p].op = op}

\* Every goroutine called CreateDomain, for domains that differ from one
\* another and from the stored ones, and every call has returned.
ConcurrentInserts ==
    /\ AllReturned
    /\ Calling("CreateDomain") = Procs
    /\ \A p, q \in Procs : p # q => calls[p].arg.domain # calls[q].arg.domain
    /\ \A p \in Procs : ~PrimaryKey(start, calls[p].arg.domain)

\* C14: concurrent CreateDomain calls for distinct new domains all succeed, in
\* every interleaving, and GetAllDomains after them returns the records
\* stored before and the new ones, in ascending order of domain.
C14_ConcurrentInsertsSucceed ==
    ConcurrentInserts =>
        /\ \A p \in Procs : calls[p].err = NoErr
        /\ GetAllDomains(table) =
               GetAllDomains(start \cup {calls[p].val : p \in Procs})

\* The goroutines other than p only read in this round.
OnlyReadersBeside(p) ==
    \A q \in Procs \ {p} : q \in Calling("GetDomain") \cup Calling("GetAllDomains")
                           \/ calls[q] = Idle

\* The domains the batch of call c adds to the table the round started from.
NewDomains(c) ==
    {c.arg[i].domain : i \in 1..Len(c.arg)} \ {r.domain : r \in start}

\* The transaction of call c has been committed.
Committed(c) == c.pc = "fetch" \/ (c.pc = "done" /\ c.err = NoErr)

\* The domains among ds that the finished reader c was given.
SeenBy(c, ds) ==
    IF c.op = "GetDomain"
    THEN IF c.val = Nil THEN {} ELSE {c.val.domain} \cap ds
    ELSE {c.val[i].domain : i \in 1..Len(c.val)} \cap ds

\* C15: beside a BulkCreateDomains, what the table offers its readers at any
\* moment, and what a GetDomain or GetAllDomains was given, holds none of the
\* batch's records unless the batch is committed, and then a listing holds
\* them all; never a record of a batch that is rolled back.
C15_NoHalfAppliedBatch ==
    \A p \in Calling("BulkCreateDomains") :
        OnlyReadersBeside(p) =>
            LET new == NewDomains(calls[p])
                stored == {r.domain : r \in table} \cap new
            IN  /\ stored # {} => Committed(calls[p]) /\ stored = new
                /\ \A q \in Procs \ {p} :
                      (calls[q] # Idle /\ SeenBy(calls[q], new) # {}) =>
                          /\ Committed(calls[p])
                          /\ calls[q].op = "GetAllDomains" =>
                                 SeenBy(calls[q], new) = new

\* A batch of two has made its first insert while a reader asked for that
\* domain and was given nothing.
C15_Witness ==
    \E p \in Calling("BulkCreateDomains"), q \in Calling("GetDomain") :
        /\ calls[p].pc = "insert" /\ Len(calls[p].arg) = 2
        /\ calls[p].tx # {}
        /\ calls[q].arg \in {r.domain : r \in calls[p].tx}
        /\ calls[q].val = Nil

\* The table after the UpdateDomain calls c then d, one after the other.
SerialUpdates(t, c, d) ==
    UpdateDomain(UpdateDomain(t, c.arg.domain, c.arg.req, now).table,
                 d.arg.domain, d.arg.req, now).table

\* Two UpdateDomain calls of one domain have both returned without error, one
\* with an empty protocol and one with a protocol.
ConcurrentUpdates(p, q) ==
    /\ AllReturned
    /\ {p, q} \subseteq Calling("UpdateDomain")
    /\ calls[p].arg.domain = calls[q].arg.domain
    /\ calls[p].arg.req.protocol = "" /\ calls[q].arg.req.protocol # ""
    /\ calls[p].err = NoErr /\ calls[q].err = NoErr

\* C16: an UpdateDomain with an empty protocol that interleaves with an
\* UpdateDomain of the same domain writes the protocol stored at the moment
\* of its write: the table they leave is the one some serial order of the two
\* leaves.
C16_UpdatesSerializable ==
    \A p, q \in Procs :
        ConcurrentUpdates(p, q) =>
            table \in {SerialUpdates(start, calls[p], calls[q]),
                       SerialUpdates(start, calls[q], calls[p])}

(* --------------------- properties of the timestamps -------------------- *)

\* A step in which the registry answers an UpdateDomain call.
UpdateStep == last = Idle /\ last' # Idle /\ last'.op = "UpdateDomain"

\* C21: created_at is set at insertion and kept by every later step;
\* updated_at changes only in an UpdateDomain that found the record, which
\* sets it to the current time; an UpdateDomain that finds no record changes
\* nothing; created_at is at most updated_at in every record.
C21_Timestamps ==
    [][/\ \A r \in table' : r.created_at <= r.updated_at
       /\ \A old \in table, new \in table' :
              old.domain = new.domain =>
                  /\ new.created_at = old.created_at
                  /\ new.updated_at # old.updated_at => UpdateStep
       /\ UpdateStep =>
              LET d == last'.arg.domain
              IN  IF RowsOf(table, d) = {} THEN table' = table /\ last'.val = Nil
                  ELSE /\ \A new \in RowsOf(table', d) : new.updated_at = now
                       /\ table' \ RowsOf(table', d) = table \ RowsOf(table, d)
      ]_vars

\* C21 witness: a record inserted at time 0 was updated at time 1.
C21_Witness ==
    /\ last.op = "UpdateDomain"
    /\ \E old \in RowsOf(last.pre, last.arg.domain) : old.updated_at = 0
    /\ last.val # Nil /\ last.val.created_at = 0 /\ last.val.updated_at = 1

(* ----------------------- properties of the proxy ----------------------- *)

\* Errors the transport reports for a backend it cannot reach.
TransportErrors == {"connection refused", "i/o timeout"}

\* C22: the body the proxy writes for a failing request is a fixed message:
\* it is the same whatever the error the transport reported.
C22_NoInternalDetail ==
    (last.op = "ServeHTTP" /\ last.msg # <<>>) =>
        \A e \in TransportErrors :
            last.backend.err # NoErr =>
                ServeHTTP(last.pre, last.r, last.ioerr, [err |-> e]).msg = last.msg

\* C23: serving a proxied request, whatever its outcome, leaves the table as
\* it was; it makes at most one lookup, and a request handed to a backend was
\* sent to the target its one lookup returned.
C23_ProxyReadOnly ==
    last.op = "ServeHTTP" =>
        /\ table = last.pre
        /\ Len(last.lookups) <= 1
        /\ last.outreq # Nil =>
               /\ Len(last.lookups) = 1
               /\ \E row \in RowsOf(last.pre, last.lookups[1]) :
                      last.outreq.URL.Host = <<row.ip, ":">> \o Itoa(row.port)

\* C23 witness: a request was passed to the backend of a stored domain.
C23_Witness ==
    /\ last.op = "ServeHTTP" /\ last.status = 200
    /\ last.pre # {} /\ last.outreq # Nil

Succeeded(op) == {p \in Calling(op) : calls[p].pc = "done" /\ calls[p].err = NoErr}

\* C25: a CreateDomain that returns without error returns the record it
\* inserted, with the ip, port and protocol of the request, whatever the other
\* goroutines do to the domain meanwhile.
C25_InsertReturnsInserted ==
    \A p \in Succeeded("CreateDomain") :
        /\ calls[p].val # Nil
        /\ StoredAs(calls[p].val, calls[p].arg)

\* C26: a BulkCreateDomains that returns without error returns one record
\* for each record of the batch, in the order of the batch, each as its
\* request was stored, whatever the other goroutines do after the commit.
C26_BulkReturnsEveryRecord ==
    \A p \in Succeeded("BulkCreateDomains") :
        /\ Len(calls[p].val) = Len(calls[p].arg)
        /\ \A i \in 1..Len(calls[p].val) :
               i <= Len(calls[p].arg) => StoredAs(calls[p].val[i], calls[p].arg[i])

\* The UPDATE of goroutine p's UpdateDomain has changed a row, and the call
\* returns in this step.
ReturnsAfterWrite(p) ==
    IF calls[p] = Idle THEN FALSE
    ELSE /\ calls[p].op = "UpdateDomain" /\ calls[p].pc = "fetch"
         /\ calls'[p].pc = "done"

\* C27: an UpdateDomain whose UPDATE changed a stored record returns the
\* updated record, not nil (absent), whatever the other goroutines do to the
\* domain meanwhile.
C27_UpdateAbsentOnlyIfUnmodified ==
    [][\A p \in Procs :
          ReturnsAfterWrite(p) =>
              /\ calls'[p].val # Nil
              /\ calls'[p].val.ip = calls[p].arg.req.ip
              /\ calls'[p].val.port = calls[p].arg.req.port]_vars

====
